---- MODULE Spec2Model ----
(***************************************************************************)
(* Model of two facilities of octant:                                      *)
(*   - internal/api NamespacesManager: a poll loop that calls a namespaces *)
(*     generator, serialises the result with encoding/json and sends an    *)
(*     event to the client when the serialisation changed;                 *)
(*   - pkg/plugin/api Client: the dashboard service API client used by     *)
(*     plugins (List, Get, Update, PortForward, CancelPortForward,         *)
(*     ForceFrontendUpdate).                                               *)
(* The two are independent programs and are given one specification each:  *)
(* Spec (the manager) and ClientSpec (the client).                         *)
(***************************************************************************)
EXTENDS Integers, Sequences, FiniteSets, TLC

VARIABLES
    \* ---- NamespacesManager ----
    config,       \* n.config: "nil" or "cfg"
    ctxDone,      \* ctx.Err() != nil
    ch,           \* the stop channel made by Start
    pc,           \* position of Start / poller.Run / the update task
    previous,     \* the bytes captured by the closure of runUpdate
    namespaces,   \* local of the task: the generator's list
    err,          \* local of the task: the generator's error
    answer,       \* what the cluster answered to the calls of this cycle
    sink,         \* the events handed to client.Send, in order
    hist,         \* one record per finished cycle (history variable)
    \* ---- Client ----
    store,        \* the dashboard's object store: key -> object or absent
    forwards,     \* the dashboard's live port forwards: id -> port number
    nextID,       \* the dashboard's next port forward id
    remote,       \* requests received by the dashboard during the last call
    ret,          \* what the last client call returned
    logs,         \* number of lines the client logged
    calls,        \* number of client calls made
    cancels,      \* number of CancelPortForward calls per session id
    client,       \* what NewClient was given, did and returned
    via,          \* the connection the last call took its stub from
    \* ---- several poll loops side by side ----
    loops,        \* per loop: position, context, task locals, events sent
    baselines     \* the `previous` variables, by the runUpdate call owning them

mgrVars == <<config, ctxDone, ch, pc, previous, namespaces, err, answer, sink, hist>>
cliVars == <<store, forwards, nextID, remote, ret, logs, calls, cancels, client, via>>
loopVars == <<loops, baselines>>
vars == <<mgrVars, cliVars, loopVars>>

----------------------------------------------------------------------------
(* Bounds *)

\* poll cycles of one run of the loop
MaxCycles == 3

----------------------------------------------------------------------------
(* Go values *)

\* a nil error is the empty chain; errors.New makes a one-message chain and
\* errors.Wrap puts its message in front of the cause.
NoErr == <<>>
ErrorsNew(msg) == <<msg>>
ErrorsWrap(cause, msg) == IF cause = NoErr THEN NoErr ELSE <<msg>> \o cause

\* a []string is nil or a (possibly empty) sequence of strings; a string is
\* the sequence of its bytes.
NilSlice == [isNil |-> TRUE, elems |-> <<>>]
Slice(s) == [isNil |-> FALSE, elems |-> s]

RECURSIVE BytesCompareFrom(_, _, _)
BytesCompareFrom(a, b, i) ==
    IF i > Len(a) /\ i > Len(b) THEN 0
    ELSE IF i > Len(a) THEN -1
    ELSE IF i > Len(b) THEN 1
    ELSE IF a[i] < b[i] THEN -1
    ELSE IF a[i] > b[i] THEN 1
    ELSE BytesCompareFrom(a, b, i + 1)

\* bytes.Compare(a, b); a nil slice compares as an empty one
BytesCompare(a, b) == BytesCompareFrom(a, b, 1)

----------------------------------------------------------------------------
(* encoding/json on a []string, as called by the update task *)

\* "0123456789abcdef"[n]
Hex(n) == IF n < 10 THEN 48 + n ELSE 87 + n
\* the six characters backslash, u, f, f, f, d written for an invalid byte
ReplacementEscape == <<92, 117, 102, 102, 102, 100>>

\* one byte below utf8.RuneSelf, with HTML escaping on (json.Marshal)
EscapeASCII(b) ==
    IF b = 34 \/ b = 92 THEN <<92, b>>
    ELSE IF b = 10 THEN <<92, 110>>
    ELSE IF b = 13 THEN <<92, 114>>
    ELSE IF b = 9 THEN <<92, 116>>
    ELSE IF b < 32 \/ b = 60 \/ b = 62 \/ b = 38
         THEN <<92, 117, 48, 48, Hex(b \div 16), Hex(b % 16)>>
    ELSE <<b>>

IsCont(b) == b >= 128 /\ b <= 191

\* number of bytes of the well-formed UTF-8 sequence starting at s[i], or 0
RuneLen(s, i) ==
    LET b == s[i]
        has(n) == i + n - 1 <= Len(s)
        second(lo, hi) == s[i + 1] >= lo /\ s[i + 1] <= hi
    IN  IF b < 128 THEN 1
        ELSE IF b >= 194 /\ b <= 223
             THEN IF has(2) /\ IsCont(s[i + 1]) THEN 2 ELSE 0
        ELSE IF b >= 224 /\ b <= 239
             THEN IF has(3)
                     /\ second(IF b = 224 THEN 160 ELSE 128,
                               IF b = 237 THEN 159 ELSE 191)
                     /\ IsCont(s[i + 2])
                  THEN 3 ELSE 0
        ELSE IF b >= 240 /\ b <= 244
             THEN IF has(4)
                     /\ second(IF b = 240 THEN 144 ELSE 128,
                               IF b = 244 THEN 143 ELSE 191)
                     /\ IsCont(s[i + 2]) /\ IsCont(s[i + 3])
                  THEN 4 ELSE 0
        ELSE 0

RECURSIVE EncodeFrom(_, _)
\* the body of a JSON string for the bytes s[i..]
EncodeFrom(s, i) ==
    IF i > Len(s) THEN <<>>
    ELSE LET n == RuneLen(s, i)
         IN  IF n = 0 THEN ReplacementEscape \o EncodeFrom(s, i + 1)
             ELSE IF n = 1 THEN EscapeASCII(s[i]) \o EncodeFrom(s, i + 1)
             ELSE IF n = 3 /\ s[i] = 226 /\ s[i + 1] = 128
                     /\ (s[i + 2] = 168 \/ s[i + 2] = 169)
                  THEN <<92, 117, 50, 48, 50, Hex(s[i + 2] - 160)>>
                       \o EncodeFrom(s, i + n)
             ELSE SubSeq(s, i, i + n - 1) \o EncodeFrom(s, i + n)

EncodeString(s) == <<34>> \o EncodeFrom(s, 1) \o <<34>>

RECURSIVE EncodeElems(_, _)
EncodeElems(elems, i) ==
    IF i > Len(elems) THEN <<>>
    ELSE (IF i > 1 THEN <<44>> ELSE <<>>)
         \o EncodeString(elems[i]) \o EncodeElems(elems, i + 1)

\* a serialisation that writes nothing for a nil list
MarshalNilEmpty(ns) ==
    IF ns.isNil THEN <<>>
    ELSE <<91>> \o EncodeElems(ns.elems, 1) \o <<93>>

\* a serialisation that writes the names in sorted order
MarshalCanonical(ns) ==
    IF ns.isNil THEN <<110, 117, 108, 108>>
    ELSE LET n == Len(ns.elems)
             p == CHOOSE q \in [1..n -> 1..n] :
                    /\ \A i, j \in 1..n : i # j => q[i] # q[j]
                    /\ \A i, j \in 1..n :
                          i < j => BytesCompare(ns.elems[q[i]], ns.elems[q[j]]) <= 0
         IN  <<91>> \o EncodeElems([i \in 1..n |-> ns.elems[p[i]]], 1) \o <<93>>

\* json.Marshal(namespaces): never fails on a []string
Marshal(ns) ==
    IF ns.isNil THEN <<110, 117, 108, 108>>
    ELSE <<91>> \o EncodeElems(ns.elems, 1) \o <<93>>


----------------------------------------------------------------------------
(* Inputs of the manager *)

A == <<97>>
B == <<98>>
\* two bytes that are no UTF-8 at all
XFF == <<255>>
XFE == <<254>>
\* the one name a","b
Q == <<97, 34, 44, 34, 98>>
\* "d", standing for the initial namespace of the kube context
D == <<100>>

\* the lists the namespace lister may return (with a nil error)
Lists ==
    { NilSlice, Slice(<<>>), Slice(<<A>>), Slice(<<A, B>>), Slice(<<B, A>>),
      Slice(<<Q>>), Slice(<<XFF, XFE>>), Slice(<<XFE, XFF>>) }

InitialNamespaces == {A, D}

\* what the cluster client answers during one generator call:
\* NamespaceClient() fails; or Names() fails and InitialNamespace() is asked;
\* or Names() returns a list.
ClusterAnswers ==
    { [asked |-> TRUE, clientErr |-> <<"no cluster">>, namesErr |-> NoErr,
       names |-> NilSlice, initial |-> <<>>] }
    \cup { [asked |-> TRUE, clientErr |-> NoErr, namesErr |-> <<"forbidden">>,
            names |-> NilSlice, initial |-> n] : n \in InitialNamespaces }
    \cup { [asked |-> TRUE, clientErr |-> NoErr, namesErr |-> NoErr,
            names |-> l, initial |-> <<>>] : l \in Lists }

\* the cluster client was not called
NoAnswer == [asked |-> FALSE, clientErr |-> NoErr, namesErr |-> NoErr,
             names |-> NilSlice, initial |-> <<>>]

----------------------------------------------------------------------------
(* NamespacesManager *)

\* a generator that surfaces the listing error
NamespacesGeneratorNoFallback(cfg, cl) ==
    IF cfg = "nil"
    THEN [namespaces |-> NilSlice,
          err |-> ErrorsNew("namespaces manager config is nil")]
    ELSE IF cl.clientErr # NoErr
    THEN [namespaces |-> NilSlice,
          err |-> ErrorsWrap(cl.clientErr, "retrieve namespaces client")]
    ELSE [namespaces |-> cl.names, err |-> cl.namesErr]

\* a generator that hides the failure to obtain the namespace client
NamespacesGeneratorHidesClientErr(cfg, cl) ==
    IF cfg = "nil"
    THEN [namespaces |-> NilSlice,
          err |-> ErrorsNew("namespaces manager config is nil")]
    ELSE IF cl.clientErr # NoErr
    THEN [namespaces |-> NilSlice, err |-> NoErr]
    ELSE IF cl.namesErr # NoErr
    THEN [namespaces |-> Slice(<<cl.initial>>), err |-> NoErr]
    ELSE [namespaces |-> cl.names, err |-> NoErr]

NamespacesGenerator(cfg, cl) ==
    IF cfg = "nil"
    THEN [namespaces |-> NilSlice,
          err |-> ErrorsNew("namespaces manager config is nil")]
    ELSE IF cl.clientErr # NoErr
    THEN [namespaces |-> NilSlice,
          err |-> ErrorsWrap(cl.clientErr, "retrieve namespaces client")]
    ELSE IF cl.namesErr # NoErr
    THEN [namespaces |-> Slice(<<cl.initial>>), err |-> NoErr]
    ELSE [namespaces |-> cl.names, err |-> NoErr]

\* an event that carries the names in reverse order
CreateNamespacesEventReversed(ns) ==
    [Type |-> "namespaces",
     Data |-> [namespaces |->
                 [ns EXCEPT !.elems =
                     [i \in 1..Len(ns.elems) |-> ns.elems[Len(ns.elems) + 1 - i]]]]]

CreateNamespacesEvent(ns) ==
    [Type |-> "namespaces", Data |-> [namespaces |-> ns]]

\* a task that never replaces its baseline
UpdateTaskKeepsBaseline(prev, ns, e, cancelled) ==
    IF e # NoErr
    THEN [previous |-> prev, send |-> <<>>, logged |-> TRUE, ret |-> FALSE]
    ELSE IF ~cancelled /\ BytesCompare(prev, Marshal(ns)) # 0
    THEN [previous |-> prev, send |-> <<CreateNamespacesEvent(ns)>>,
          logged |-> FALSE, ret |-> FALSE]
    ELSE [previous |-> prev, send |-> <<>>, logged |-> FALSE, ret |-> FALSE]

\* a task that logs a generator error and goes on instead of returning
UpdateTaskNoReturn(prev, ns, e, cancelled) ==
    IF ~cancelled /\ BytesCompare(prev, Marshal(ns)) # 0
    THEN [previous |-> Marshal(ns), send |-> <<CreateNamespacesEvent(ns)>>,
          logged |-> e # NoErr, ret |-> FALSE]
    ELSE [previous |-> prev, send |-> <<>>, logged |-> e # NoErr, ret |-> FALSE]

\* a task that forgets its baseline when the generator fails
UpdateTaskResetsOnError(prev, ns, e, cancelled) ==
    IF e # NoErr
    THEN [previous |-> <<>>, send |-> <<>>, logged |-> TRUE, ret |-> FALSE]
    ELSE IF ~cancelled /\ BytesCompare(prev, Marshal(ns)) # 0
    THEN [previous |-> Marshal(ns), send |-> <<CreateNamespacesEvent(ns)>>,
          logged |-> FALSE, ret |-> FALSE]
    ELSE [previous |-> prev, send |-> <<>>, logged |-> FALSE, ret |-> FALSE]

\* a task that asks the poller to stop when the generator fails
UpdateTaskStopsOnError(prev, ns, e, cancelled) ==
    IF e # NoErr
    THEN [previous |-> prev, send |-> <<>>, logged |-> TRUE, ret |-> TRUE]
    ELSE IF ~cancelled /\ BytesCompare(prev, Marshal(ns)) # 0
    THEN [previous |-> Marshal(ns), send |-> <<CreateNamespacesEvent(ns)>>,
          logged |-> FALSE, ret |-> FALSE]
    ELSE [previous |-> prev, send |-> <<>>, logged |-> FALSE, ret |-> FALSE]

\* a task that does not look at the context
UpdateTaskIgnoresCancel(prev, ns, e, cancelled) ==
    IF e # NoErr
    THEN [previous |-> prev, send |-> <<>>, logged |-> TRUE, ret |-> FALSE]
    ELSE IF BytesCompare(prev, Marshal(ns)) # 0
    THEN [previous |-> Marshal(ns), send |-> <<CreateNamespacesEvent(ns)>>,
          logged |-> FALSE, ret |-> FALSE]
    ELSE [previous |-> prev, send |-> <<>>, logged |-> FALSE, ret |-> FALSE]

\* the task returned by runUpdate, from the generator's return on:
\* the new baseline, the events sent, whether it logged, and its result.
UpdateTask(prev, ns, e, cancelled) ==
    IF e # NoErr
    THEN [previous |-> prev, send |-> <<>>, logged |-> TRUE, ret |-> FALSE]
    ELSE IF ~cancelled /\ BytesCompare(prev, Marshal(ns)) # 0
    THEN [previous |-> Marshal(ns), send |-> <<CreateNamespacesEvent(ns)>>,
          logged |-> FALSE, ret |-> FALSE]
    ELSE [previous |-> prev, send |-> <<>>, logged |-> FALSE, ret |-> FALSE]

NoChan == [made |-> FALSE, cap |-> 0, len |-> 0, closed |-> FALSE]

MgrInit ==
    /\ config \in {"nil", "cfg"}
    /\ ctxDone = FALSE
    /\ ch = NoChan
    /\ pc = "new"
    /\ previous = <<>>
    /\ namespaces = NilSlice
    /\ err = NoErr
    /\ answer = NoAnswer
    /\ sink = <<>>
    /\ hist = <<>>

\* a Start that puts a stop signal into the channel before running the poller
StartSendsStop ==
    /\ pc = "new"
    /\ ch' = [made |-> TRUE, cap |-> 1, len |-> 1, closed |-> FALSE]
    /\ previous' = <<>>
    /\ pc' = "waiting"
    /\ UNCHANGED <<config, ctxDone, namespaces, err, answer, sink, hist>>
    /\ UNCHANGED <<cliVars, loopVars>>

\* Start, up to the poller waiting for its first delay
Start ==
    /\ pc = "new"
    /\ ch' = [made |-> TRUE, cap |-> 1, len |-> 0, closed |-> FALSE]
    /\ previous' = <<>>
    /\ pc' = "waiting"
    /\ UNCHANGED <<config, ctxDone, namespaces, err, answer, sink, hist>>
    /\ UNCHANGED <<cliVars, loopVars>>

\* the context given to Start is cancelled by its owner
Cancel ==
    /\ ~ctxDone
    /\ ctxDone' = TRUE
    /\ UNCHANGED <<config, ch, pc, previous, namespaces, err, answer, sink, hist>>
    /\ UNCHANGED <<cliVars, loopVars>>

\* a receive from the stop channel would not block: it holds a value or is closed
StopSignalled == ch.len > 0 \/ ch.closed

\* the delay elapsed: the poller runs the task, which calls the generator
CallGenerator ==
    /\ pc = "waiting"
    /\ ~ctxDone
    /\ ~StopSignalled
    /\ Len(hist) < MaxCycles
    /\ \E cl \in ClusterAnswers :
         /\ answer' = IF config = "nil" THEN NoAnswer ELSE cl
         /\ namespaces' = NamespacesGenerator(config, cl).namespaces
         /\ err' = NamespacesGenerator(config, cl).err
    /\ pc' = "generated"
    /\ UNCHANGED <<config, ctxDone, ch, previous, sink, hist>>
    /\ UNCHANGED <<cliVars, loopVars>>

\* the rest of the task, and the poller's look at its result
FinishCycle ==
    /\ pc = "generated"
    /\ LET t == UpdateTask(previous, namespaces, err, ctxDone)
       IN  /\ previous' = t.previous
           /\ sink' = sink \o t.send
           /\ hist' = Append(hist, [out |-> [namespaces |-> namespaces, err |-> err],
                                    cancelled |-> ctxDone,
                                    pushed |-> t.send # <<>>,
                                    logged |-> t.logged,
                                    ret |-> t.ret])
           /\ pc' = IF t.ret THEN "runReturned" ELSE "waiting"
    /\ namespaces' = NilSlice
    /\ err' = NoErr
    /\ answer' = NoAnswer
    /\ UNCHANGED <<config, ctxDone, ch>>
    /\ UNCHANGED <<cliVars, loopVars>>

\* poller.Run returns: the context is done or a stop signal is in the channel
RunReturn ==
    /\ pc = "waiting"
    /\ (ctxDone \/ StopSignalled)
    /\ pc' = "runReturned"
    /\ UNCHANGED <<config, ctxDone, ch, previous, namespaces, err, answer, sink, hist>>
    /\ UNCHANGED <<cliVars, loopVars>>

\* a Start that runs the poller in a goroutine of its own and returns
StartReturnEarly ==
    /\ pc \in {"waiting", "generated", "runReturned"}
    /\ ch' = [ch EXCEPT !.closed = TRUE]
    /\ pc' = "returned"
    /\ UNCHANGED <<config, ctxDone, previous, namespaces, err, answer, sink, hist>>
    /\ UNCHANGED <<cliVars, loopVars>>

\* Start's deferred close(ch), and Start returns
StartReturn ==
    /\ pc = "runReturned"
    /\ ch' = [ch EXCEPT !.closed = TRUE]
    /\ pc' = "returned"
    /\ UNCHANGED <<config, ctxDone, previous, namespaces, err, answer, sink, hist>>
    /\ UNCHANGED <<cliVars, loopVars>>

Next ==
    \/ Start
    \/ Cancel
    \/ CallGenerator
    \/ FinishCycle
    \/ RunReturn
    \/ StartReturn

----------------------------------------------------------------------------
(* Values exchanged by the client *)

\* calls made on one client
MaxCalls == 3

\* store.Key
Key(name, selector) ==
    [APIVersion |-> "v1", Kind |-> "Pod", Namespace |-> "default",
     Name |-> name, Selector |-> selector]
K1 == Key("web-0", "")
K2 == Key("web-1", "")
\* a key whose selector has no wire form
KBad == Key("", "unencodable")
\* every pod of the namespace
KAll == Key("", "")
Keys == {K1, K2, KAll, KBad}
StoredNames == {"web-0", "web-1"}

\* *unstructured.Unstructured; rev stands for the rest of the document and
\* a negative rev for a value JSON cannot encode
NilObject == [isNil |-> TRUE, kind |-> "", namespace |-> "", name |-> "", rev |-> 0]
Object(name, rev) ==
    [isNil |-> FALSE, kind |-> "Pod", namespace |-> "default", name |-> name, rev |-> rev]
Objects == {Object("web-0", 1), Object("web-0", 2), Object("web-1", 1), Object("web-1", -1)}

\* []byte holding a JSON document: nil, well-formed or not
NilBytes == [isNil |-> TRUE, valid |-> FALSE, doc |-> NilObject]
Garbled == [isNil |-> FALSE, valid |-> FALSE, doc |-> NilObject]
Json(o) == [isNil |-> FALSE, valid |-> TRUE, doc |-> o]

NilKeyRequest == [isNil |-> TRUE, Namespace |-> "", ApiVersion |-> "", Kind |-> "", Name |-> ""]

convertFromKey(key) ==
    IF key.Selector # ""
    THEN [req |-> NilKeyRequest, err |-> <<"convert key: selector">>]
    ELSE [req |-> [isNil |-> FALSE, Namespace |-> key.Namespace,
                   ApiVersion |-> key.APIVersion, Kind |-> key.Kind,
                   Name |-> key.Name],
          err |-> NoErr]

convertFromObject(o) ==
    IF o.rev < 0
    THEN [data |-> NilBytes, err |-> <<"json: unsupported value">>]
    ELSE [data |-> Json(o), err |-> NoErr]

convertToObject(b) ==
    IF b.isNil THEN [object |-> NilObject, found |-> FALSE, err |-> NoErr]
    ELSE IF ~b.valid
    THEN [object |-> NilObject, found |-> FALSE, err |-> <<"json: invalid document">>]
    ELSE [object |-> b.doc, found |-> TRUE, err |-> NoErr]

NilList == [isNil |-> TRUE, items |-> <<>>]

convertToObjects(bs) ==
    IF \E i \in 1..Len(bs) : convertToObject(bs[i]).err # NoErr
    THEN [list |-> NilList,
          err |-> convertToObject(
                      bs[CHOOSE i \in 1..Len(bs) :
                            /\ convertToObject(bs[i]).err # NoErr
                            /\ \A j \in 1..(i - 1) :
                                  convertToObject(bs[j]).err = NoErr]).err]
    ELSE [list |-> [isNil |-> FALSE,
                    items |-> [i \in 1..Len(bs) |-> convertToObject(bs[i]).object]],
          err |-> NoErr]

----------------------------------------------------------------------------
(* The dashboard behind the connection *)

\* what may go wrong with one remote call: nothing, the call fails, or the
\* documents of the reply are not well-formed
Faults == {"none", "fail", "garbled"}
Unavailable == <<"rpc error: unavailable">>

\* port numbers a PortForward reply may hold (a uint32)
PortNumbers == {0, 8080, 65535, 65536, 73616, 2147483647}

Absent == NilObject

ZeroReply == [Objects |-> <<>>, Object |-> NilBytes, PortForwardID |-> 0, PortNumber |-> 0]

\* one call on the stub: the request as received and the reply or the error
Call(rpc, req, reply, fault) ==
    [rpc |-> rpc, req |-> req,
     resp |-> IF fault = "fail" THEN ZeroReply ELSE reply,
     err |-> IF fault = "fail" THEN Unavailable ELSE NoErr]

Wire(o, fault) == IF fault = "garbled" THEN Garbled ELSE Json(o)

\* the documents of the stored objects a key request selects, by name
DashboardList(st, req, fault) ==
    LET hit == {n \in StoredNames :
                   st[n] # Absent /\ (req.Name = "" \/ req.Name = n)}
        one(n) == <<Wire(st[n], fault)>>
    IN  [ZeroReply EXCEPT !.Objects =
            (IF "web-0" \in hit THEN one("web-0") ELSE <<>>)
            \o (IF "web-1" \in hit THEN one("web-1") ELSE <<>>)]

DashboardGet(st, req, fault) ==
    [ZeroReply EXCEPT !.Object =
        IF req.Name \in StoredNames /\ st[req.Name] # Absent
        THEN Wire(st[req.Name], fault) ELSE NilBytes]

\* the store after an Update request was served
DashboardUpdate(st, data, fault) ==
    IF fault = "fail" \/ data.isNil \/ ~data.valid THEN st
    ELSE [st EXCEPT ![data.doc.name] = data.doc]

----------------------------------------------------------------------------
(* Client *)

NoArgs == [key |-> K1, object |-> NilObject, id |-> 0, port |-> 0]

\* what a call returned; the fields a method does not return stay zero
Returned(op, args) ==
    [op |-> op, args |-> args, list |-> NilList, object |-> NilObject,
     found |-> FALSE, ID |-> 0, Port |-> 0, err |-> NoErr, logged |-> FALSE]

\* a List that wraps the error of the remote call
ClientListWraps(key, st, fault) ==
    LET a == [NoArgs EXCEPT !.key = key]
        k == convertFromKey(key)
        c == Call("List", k.req, DashboardList(st, k.req, fault), fault)
        o == convertToObjects(c.resp.Objects)
    IN  IF k.err # NoErr
        THEN [ret |-> [Returned("List", a) EXCEPT !.err = k.err], remote |-> <<>>]
        ELSE IF c.err # NoErr
        THEN [ret |-> [Returned("List", a) EXCEPT !.err = ErrorsWrap(c.err, "list")],
              remote |-> <<c>>]
        ELSE IF o.err # NoErr
        THEN [ret |-> [Returned("List", a) EXCEPT !.err = o.err], remote |-> <<c>>]
        ELSE [ret |-> [Returned("List", a) EXCEPT !.list = o.list], remote |-> <<c>>]

ClientList(key, st, fault) ==
    LET a == [NoArgs EXCEPT !.key = key]
        k == convertFromKey(key)
        c == Call("List", k.req, DashboardList(st, k.req, fault), fault)
        o == convertToObjects(c.resp.Objects)
    IN  IF k.err # NoErr
        THEN [ret |-> [Returned("List", a) EXCEPT !.err = k.err], remote |-> <<>>]
        ELSE IF c.err # NoErr
        THEN [ret |-> [Returned("List", a) EXCEPT !.err = c.err], remote |-> <<c>>]
        ELSE IF o.err # NoErr
        THEN [ret |-> [Returned("List", a) EXCEPT !.err = o.err], remote |-> <<c>>]
        ELSE [ret |-> [Returned("List", a) EXCEPT !.list = o.list], remote |-> <<c>>]

\* a Get that does not look at the error of the remote call
ClientGetSwallows(key, st, fault) ==
    LET a == [NoArgs EXCEPT !.key = key]
        k == convertFromKey(key)
        c == Call("Get", k.req, DashboardGet(st, k.req, fault), fault)
        o == convertToObject(c.resp.Object)
    IN  IF k.err # NoErr
        THEN [ret |-> [Returned("Get", a) EXCEPT !.err = k.err], remote |-> <<>>]
        ELSE IF o.err # NoErr
        THEN [ret |-> [Returned("Get", a) EXCEPT !.err = o.err], remote |-> <<c>>]
        ELSE [ret |-> [Returned("Get", a) EXCEPT !.object = o.object,
                                                 !.found = o.found],
              remote |-> <<c>>]

ClientGet(key, st, fault) ==
    LET a == [NoArgs EXCEPT !.key = key]
        k == convertFromKey(key)
        c == Call("Get", k.req, DashboardGet(st, k.req, fault), fault)
        o == convertToObject(c.resp.Object)
    IN  IF k.err # NoErr
        THEN [ret |-> [Returned("Get", a) EXCEPT !.err = k.err], remote |-> <<>>]
        ELSE IF c.err # NoErr
        THEN [ret |-> [Returned("Get", a) EXCEPT !.err = c.err], remote |-> <<c>>]
        ELSE IF o.err # NoErr
        THEN [ret |-> [Returned("Get", a) EXCEPT !.err = o.err], remote |-> <<c>>]
        ELSE [ret |-> [Returned("Get", a) EXCEPT !.object = o.object,
                                                 !.found = o.found],
              remote |-> <<c>>]

\* an Update that sends the request whatever the conversion said
ClientUpdateSendsFirst(object, fault) ==
    LET a == [NoArgs EXCEPT !.object = object]
        d == convertFromObject(object)
        c == Call("Update", [Object |-> d.data], ZeroReply, fault)
    IN  IF d.err # NoErr
        THEN [ret |-> [Returned("Update", a) EXCEPT !.err = d.err], remote |-> <<c>>]
        ELSE [ret |-> [Returned("Update", a) EXCEPT !.err = c.err], remote |-> <<c>>]

ClientUpdate(object, fault) ==
    LET a == [NoArgs EXCEPT !.object = object]
        d == convertFromObject(object)
        c == Call("Update", [Object |-> d.data], ZeroReply, fault)
    IN  IF d.err # NoErr
        THEN [ret |-> [Returned("Update", a) EXCEPT !.err = d.err], remote |-> <<>>]
        ELSE [ret |-> [Returned("Update", a) EXCEPT !.err = c.err], remote |-> <<c>>]

\* req.Port is a uint16 and the reply's PortNumber a uint32
ClientPortForward(port, id, number, fault) ==
    LET a == [NoArgs EXCEPT !.port = port]
        c == Call("PortForward",
                  [Namespace |-> "default", PodName |-> "web-0", PortNumber |-> port],
                  [ZeroReply EXCEPT !.PortForwardID = id, !.PortNumber = number],
                  fault)
    IN  IF c.err # NoErr
        THEN [ret |-> [Returned("PortForward", a) EXCEPT !.err = c.err],
              remote |-> <<c>>]
        ELSE [ret |-> [Returned("PortForward", a) EXCEPT
                          !.ID = c.resp.PortForwardID,
                          !.Port = c.resp.PortNumber % 65536],
              remote |-> <<c>>]

\* a CancelPortForward that asks again when the remote call failed
ClientCancelPortForwardRetries(id, fault) ==
    LET a == [NoArgs EXCEPT !.id = id]
        c == Call("CancelPortForward", [PortForwardID |-> id], ZeroReply, fault)
    IN  [ret |-> [Returned("CancelPortForward", a) EXCEPT !.logged = c.err # NoErr],
         remote |-> IF c.err # NoErr THEN <<c, c>> ELSE <<c>>]

ClientCancelPortForward(id, fault) ==
    LET a == [NoArgs EXCEPT !.id = id]
        c == Call("CancelPortForward", [PortForwardID |-> id], ZeroReply, fault)
    IN  [ret |-> [Returned("CancelPortForward", a) EXCEPT !.logged = c.err # NoErr],
         remote |-> <<c>>]

ClientForceFrontendUpdate(fault) ==
    LET c == Call("ForceFrontendUpdate", [Empty |-> TRUE], ZeroReply, fault)
    IN  [ret |-> [Returned("ForceFrontendUpdate", NoArgs) EXCEPT !.err = c.err],
         remote |-> <<c>>]

\* before NewClient is called
NoClient ==
    [called |-> FALSE, injected |-> FALSE, made |-> FALSE, conn |-> "nil",
     dials |-> 0, dialErr |-> NoErr, err |-> NoErr]

\* a NewClient that dials whatever the options did
NewClientAlwaysDials(injected, dialErr) ==
    IF dialErr # NoErr
    THEN [called |-> TRUE, injected |-> injected, made |-> FALSE, conn |-> "nil",
          dials |-> 1, dialErr |-> dialErr, err |-> dialErr]
    ELSE [called |-> TRUE, injected |-> injected, made |-> TRUE, conn |-> "dialed",
          dials |-> 1, dialErr |-> NoErr, err |-> NoErr]

\* NewClient(address, options...): injected says whether an option set
\* DashboardConnection, dialErr is what grpc.Dial would return
NewClientOf(injected, dialErr) ==
    IF injected
    THEN [called |-> TRUE, injected |-> TRUE, made |-> TRUE, conn |-> "injected",
          dials |-> 0, dialErr |-> NoErr, err |-> NoErr]
    ELSE IF dialErr # NoErr
    THEN [called |-> TRUE, injected |-> FALSE, made |-> FALSE, conn |-> "nil",
          dials |-> 1, dialErr |-> dialErr, err |-> dialErr]
    ELSE [called |-> TRUE, injected |-> FALSE, made |-> TRUE, conn |-> "dialed",
          dials |-> 1, dialErr |-> NoErr, err |-> NoErr]

CliInit ==
    /\ client = NoClient
    /\ via = "nil"
    /\ store = [n \in StoredNames |-> Absent]
    /\ forwards = {}
    /\ nextID = 1
    /\ remote = <<>>
    /\ ret = Returned("", NoArgs)
    /\ logs = 0
    /\ calls = 0
    /\ cancels = [i \in 1..(MaxCalls + 1) |-> 0]

\* the part every call has in common
Called(r) ==
    /\ client.made
    /\ via' = client.conn
    /\ client' = client
    /\ ret' = r.ret
    /\ remote' = r.remote
    /\ logs' = IF r.ret.logged THEN logs + 1 ELSE logs
    /\ calls' = calls + 1

NewClient ==
    /\ ~client.called
    /\ \E injected \in BOOLEAN, dialErr \in {NoErr, <<"dial: bad address">>} :
         client' = NewClientOf(injected, dialErr)
    /\ UNCHANGED <<store, forwards, nextID, remote, ret, logs, calls, cancels, via>>
    /\ UNCHANGED <<mgrVars, loopVars>>

List ==
    /\ calls < MaxCalls
    /\ \E key \in Keys, fault \in Faults : Called(ClientList(key, store, fault))
    /\ UNCHANGED <<store, forwards, nextID, cancels>>
    /\ UNCHANGED <<mgrVars, loopVars>>

Get ==
    /\ calls < MaxCalls
    /\ \E key \in Keys, fault \in Faults : Called(ClientGet(key, store, fault))
    /\ UNCHANGED <<store, forwards, nextID, cancels>>
    /\ UNCHANGED <<mgrVars, loopVars>>

Update ==
    /\ calls < MaxCalls
    /\ \E object \in Objects, fault \in {"none", "fail"} :
         /\ Called(ClientUpdate(object, fault))
         /\ store' = IF ClientUpdate(object, fault).remote = <<>> THEN store
                     ELSE DashboardUpdate(store,
                              ClientUpdate(object, fault).remote[1].req.Object, fault)
    /\ UNCHANGED <<forwards, nextID, cancels>>
    /\ UNCHANGED <<mgrVars, loopVars>>

PortForward ==
    /\ calls < MaxCalls
    /\ \E number \in PortNumbers, fault \in {"none", "fail"} :
         /\ Called(ClientPortForward(8080, nextID, number, fault))
         /\ forwards' = IF fault = "fail" THEN forwards ELSE forwards \cup {nextID}
         /\ nextID' = IF fault = "fail" THEN nextID ELSE nextID + 1
    /\ UNCHANGED <<store, cancels>>
    /\ UNCHANGED <<mgrVars, loopVars>>

CancelPortForward ==
    /\ calls < MaxCalls
    /\ \E id \in 1..nextID, fault \in {"none", "fail"} :
         /\ Called(ClientCancelPortForward(id, fault))
         /\ forwards' = IF fault = "fail" THEN forwards ELSE forwards \ {id}
         /\ cancels' = [cancels EXCEPT ![id] = @ + 1]
    /\ UNCHANGED <<store, nextID>>
    /\ UNCHANGED <<mgrVars, loopVars>>

ForceFrontendUpdate ==
    /\ calls < MaxCalls
    /\ \E fault \in {"none", "fail"} : Called(ClientForceFrontendUpdate(fault))
    /\ UNCHANGED <<store, forwards, nextID, cancels>>
    /\ UNCHANGED <<mgrVars, loopVars>>

ClientNext ==
    \/ NewClient
    \/ List
    \/ Get
    \/ Update
    \/ PortForward
    \/ CancelPortForward
    \/ ForceFrontendUpdate

----------------------------------------------------------------------------
(* Several poll loops: one Start call each, on one manager or on several *)

\* cycles of each loop
MaxLoopCycles == 2

Loops == {1, 2}

\* what the cluster answers to the loops
LoopAnswers ==
    { cl \in ClusterAnswers :
        cl.clientErr # NoErr
        \/ (cl.namesErr = NoErr /\ cl.names \in {NilSlice, Slice(<<A>>), Slice(<<A, B>>)}) }

\* one baseline for the whole manager
BaselineOfManager(l) == 1

\* the variable `previous` a loop's task works on: runUpdate declares it in
\* its own body, so each call of runUpdate, hence each loop, has its own
BaselineOf(l) == l

NewLoop ==
    [pc |-> "new", done |-> FALSE, namespaces |-> NilSlice, err |-> NoErr,
     cycles |-> 0, fetched |-> FALSE, sent |-> <<>>]

LoopInit ==
    /\ loops = [l \in Loops |-> NewLoop]
    /\ baselines = [l \in Loops |-> <<>>]

\* Start of loop l: runUpdate makes the task and its baseline
LoopStart(l) ==
    /\ loops[l].pc = "new"
    /\ loops' = [loops EXCEPT ![l].pc = "waiting"]
    /\ baselines' = [baselines EXCEPT ![BaselineOf(l)] = <<>>]
    /\ UNCHANGED <<mgrVars, cliVars>>

LoopCancel(l) ==
    /\ ~loops[l].done
    /\ loops' = [loops EXCEPT ![l].done = TRUE]
    /\ UNCHANGED baselines
    /\ UNCHANGED <<mgrVars, cliVars>>

LoopCallGenerator(l) ==
    /\ loops[l].pc = "waiting"
    /\ ~loops[l].done
    /\ loops[l].cycles < MaxLoopCycles
    /\ \E cl \in LoopAnswers :
         loops' = [loops EXCEPT
                     ![l].namespaces = NamespacesGenerator("cfg", cl).namespaces,
                     ![l].err = NamespacesGenerator("cfg", cl).err,
                     ![l].pc = "generated"]
    /\ UNCHANGED baselines
    /\ UNCHANGED <<mgrVars, cliVars>>

LoopFinishCycle(l) ==
    /\ loops[l].pc = "generated"
    /\ LET t == UpdateTask(baselines[BaselineOf(l)], loops[l].namespaces,
                           loops[l].err, loops[l].done)
       IN  /\ baselines' = [baselines EXCEPT ![BaselineOf(l)] = t.previous]
           /\ loops' = [loops EXCEPT
                          ![l].sent = @ \o t.send,
                          ![l].fetched = @ \/ loops[l].err = NoErr,
                          ![l].cycles = @ + 1,
                          ![l].namespaces = NilSlice,
                          ![l].err = NoErr,
                          ![l].pc = IF t.ret THEN "returned" ELSE "waiting"]
    /\ UNCHANGED <<mgrVars, cliVars>>

LoopRunReturn(l) ==
    /\ loops[l].pc = "waiting"
    /\ loops[l].done
    /\ loops' = [loops EXCEPT ![l].pc = "returned"]
    /\ UNCHANGED baselines
    /\ UNCHANGED <<mgrVars, cliVars>>

LoopsNext ==
    \E l \in Loops :
        \/ LoopStart(l)
        \/ LoopCancel(l)
        \/ LoopCallGenerator(l)
        \/ LoopFinishCycle(l)
        \/ LoopRunReturn(l)

Init == MgrInit /\ CliInit /\ LoopInit

\* several poll loops side by side
LoopsSpec == Init /\ [][LoopsNext]_vars

\* the manager's poll loop
Spec == Init /\ [][Next]_vars

\* the calls made on one client
ClientSpec == Init /\ [][ClientNext]_vars

----------------------------------------------------------------------------
(* Properties of the manager's poll loop *)

\* the step that ends a cycle: the task returns to the poller
CycleEnds == pc = "generated" /\ pc' # "generated"

\* the serialisation of the list of the last event sent, empty before any
LastPushed ==
    IF sink = <<>> THEN <<>> ELSE Marshal(sink[Len(sink)].Data.namespaces)

Succeeded(i) == hist[i].out.err = NoErr
AllFailedBefore(i) == \A j \in 1..(i - 1) : ~Succeeded(j)
Pushes(i) == Cardinality({j \in 1..i : hist[j].pushed})

RECURSIVE ValidFrom(_, _)
ValidFrom(s, i) ==
    IF i > Len(s) THEN TRUE
    ELSE RuneLen(s, i) > 0 /\ ValidFrom(s, i + RuneLen(s, i))
\* utf8.ValidString
ValidString(s) == ValidFrom(s, 1)
ValidNames(ns) == \A i \in 1..Len(ns.elems) : ValidString(ns.elems[i])

Count(x, s) == Cardinality({i \in 1..Len(s) : s[i] = x})
\* t holds the names of s in another order
Reordered(s, t) ==
    /\ ~s.isNil /\ ~t.isNil
    /\ s.elems # t.elems
    /\ Len(s.elems) = Len(t.elems)
    /\ \A i \in 1..Len(s.elems) :
         Count(s.elems[i], s.elems) = Count(s.elems[i], t.elems)

Ok(l) == [namespaces |-> l, err |-> NoErr]

\* C1 as stated: a cycle whose generator returned a list sends an event if and
\* only if the serialisation of that list differs from the serialisation of
\* the list last sent (empty before any event).
C1_PushIffDiffers ==
    [][(CycleEnds /\ err = NoErr) =>
         ((sink' # sink) <=> (Marshal(namespaces) # LastPushed))]_vars

\* C1 amended: a cycle whose generator returned a list and that finds the
\* context not cancelled sends exactly one event, carrying that list, if the
\* serialisation of the list differs from the serialisation of the list last
\* sent (empty before any event) and sends nothing otherwise; a cycle that
\* finds the context cancelled sends nothing; and a cycle whose list equals
\* the list of the cycle before it sends nothing if that cycle sent.
C1_PushIffDiffersUnlessCancelled ==
    [][(CycleEnds /\ err = NoErr) =>
         /\ (~ctxDone /\ Marshal(namespaces) # LastPushed)
              => sink' = Append(sink, CreateNamespacesEvent(namespaces))
         /\ (ctxDone \/ Marshal(namespaces) = LastPushed) => sink' = sink
         /\ (/\ hist # <<>>
             /\ hist[Len(hist)].out = Ok(namespaces)
             /\ hist[Len(hist)].pushed) => sink' = sink]_vars

\* three cycles: a first list sent, another list sent, the same list not sent
C1_Witness ==
    /\ Len(hist) = 3
    /\ \A i \in 1..3 : Succeeded(i) /\ ~hist[i].cancelled
    /\ hist[1].pushed /\ hist[2].pushed /\ ~hist[3].pushed
    /\ hist[2].out = hist[3].out
    /\ Len(sink) = 2

\* C2 as stated: the first cycle whose generator succeeds sends, and it is
\* the one event sent so far, whatever the list.
C2_FirstSuccessPushes ==
    \A i \in 1..Len(hist) :
        (Succeeded(i) /\ AllFailedBefore(i)) => (hist[i].pushed /\ Pushes(i) = 1)

\* C2 amended: the first cycle whose generator succeeds and that finds the
\* context not cancelled sends, and it is the one event sent so far, whatever
\* the list (nil and empty included); if it finds the context cancelled
\* nothing has been sent.
C2_FirstSuccessPushesUnlessCancelled ==
    \A i \in 1..Len(hist) :
        (Succeeded(i) /\ AllFailedBefore(i)) =>
            /\ ~hist[i].cancelled => (hist[i].pushed /\ Pushes(i) = 1)
            /\ hist[i].cancelled => Pushes(i) = 0
            /\ i = Len(hist) => Len(sink) = Pushes(i)

\* the first success returned a nil list and was sent
C2_Witness ==
    /\ Len(hist) = 1
    /\ hist[1].out = Ok(NilSlice)
    /\ hist[1].pushed
    /\ Len(sink) = 1

\* C3 as stated: after N failed cycles and one successful cycle the sink
\* holds exactly one event, which carries the list of the successful call.
C3_FailuresThenSuccess ==
    \A i \in 1..Len(hist) :
        (i = Len(hist) /\ Succeeded(i) /\ AllFailedBefore(i)) =>
            sink = <<CreateNamespacesEvent(hist[i].out.namespaces)>>

\* C3 amended: after N failed cycles and one successful cycle that found the
\* context not cancelled the sink holds exactly one event, which carries the
\* list of the successful call; while only failed cycles have run the sink
\* is empty.
C3_FailuresThenSuccessUnlessCancelled ==
    /\ AllFailedBefore(Len(hist) + 1) => sink = <<>>
    /\ \A i \in 1..Len(hist) :
        (i = Len(hist) /\ Succeeded(i) /\ AllFailedBefore(i) /\ ~hist[i].cancelled) =>
            sink = <<CreateNamespacesEvent(hist[i].out.namespaces)>>

\* two failures, then a success with two names
C3_Witness ==
    /\ Len(hist) = 3
    /\ ~Succeeded(1) /\ ~Succeeded(2)
    /\ hist[3].out = Ok(Slice(<<A, B>>))
    /\ sink = <<CreateNamespacesEvent(Slice(<<A, B>>))>>

\* C4: when the namespace client was obtained and Names failed, the generator
\* returns the one-element list of the initial namespace and a nil error.
C4_FallbackToInitialNamespace ==
    (pc = "generated" /\ answer.asked /\ answer.clientErr = NoErr
        /\ answer.namesErr # NoErr) =>
        (namespaces = Slice(<<answer.initial>>) /\ err = NoErr)

C4_Witness ==
    /\ pc = "generated"
    /\ answer.asked /\ answer.clientErr = NoErr /\ answer.namesErr # NoErr
    /\ answer.initial = D
    /\ namespaces = Slice(<<D>>)

\* C5 as stated: with the lists [a,b], [a,b], [b,a] in the first three
\* cycles, cycles 1 and 3 send and cycle 2 does not; and a cycle whose list
\* holds the names of the list of the cycle before it in another order sends.
C5_OrderSensitive ==
    /\ (/\ Len(hist) >= 3
        /\ hist[1].out = Ok(Slice(<<A, B>>))
        /\ hist[2].out = Ok(Slice(<<A, B>>))
        /\ hist[3].out = Ok(Slice(<<B, A>>)))
       => (hist[1].pushed /\ ~hist[2].pushed /\ hist[3].pushed)
    /\ \A i \in 1..(Len(hist) - 1) :
        (/\ Succeeded(i) /\ Succeeded(i + 1)
         /\ Reordered(hist[i].out.namespaces, hist[i + 1].out.namespaces))
        => hist[i + 1].pushed

\* C5 amended: the same, for cycles that find the context not cancelled and
\* for names that are valid UTF-8.
C5_OrderSensitiveValidNames ==
    /\ (/\ Len(hist) >= 3
        /\ hist[1].out = Ok(Slice(<<A, B>>))
        /\ hist[2].out = Ok(Slice(<<A, B>>))
        /\ hist[3].out = Ok(Slice(<<B, A>>))
        /\ ~hist[3].cancelled)
       => (/\ hist[1].pushed /\ ~hist[2].pushed /\ hist[3].pushed
           /\ (Len(hist) = 3 =>
                 sink = <<CreateNamespacesEvent(Slice(<<A, B>>)),
                          CreateNamespacesEvent(Slice(<<B, A>>))>>))
    /\ \A i \in 1..(Len(hist) - 1) :
        (/\ Succeeded(i) /\ Succeeded(i + 1)
         /\ Reordered(hist[i].out.namespaces, hist[i + 1].out.namespaces)
         /\ ValidNames(hist[i].out.namespaces)
         /\ ValidNames(hist[i + 1].out.namespaces)
         /\ ~hist[i + 1].cancelled)
        => hist[i + 1].pushed

C5_Witness ==
    /\ Len(hist) = 3
    /\ hist[1].out = Ok(Slice(<<A, B>>))
    /\ hist[2].out = Ok(Slice(<<A, B>>))
    /\ hist[3].out = Ok(Slice(<<B, A>>))
    /\ hist[1].pushed /\ ~hist[2].pushed /\ hist[3].pushed

----------------------------------------------------------------------------
(* Properties of the client *)

AbsentInStore(key) == key.Name \notin StoredNames \/ store[key.Name] = Absent

NoResult ==
    /\ ret.list = NilList
    /\ ret.object = NilObject
    /\ ~ret.found
    /\ ret.ID = 0
    /\ ret.Port = 0

\* C6: CancelPortForward reports no error whether the remote call succeeded
\* or failed, however often it is called with one id, and each call sends
\* exactly one CancelPortForward request carrying that id; a failure is
\* only logged.
C6_CancelNeverReportsError ==
    ret.op = "CancelPortForward" =>
        /\ ret.err = NoErr
        /\ Len(remote) = 1
        /\ remote[1].rpc = "CancelPortForward"
        /\ remote[1].req.PortForwardID = ret.args.id
        /\ ret.logged <=> remote[1].err # NoErr

\* the second cancel of a session that PortForward returned and that is
\* already cancelled, with the remote call failing
C6_Witness ==
    /\ ret.op = "CancelPortForward"
    /\ ret.args.id < nextID
    /\ ret.args.id \notin forwards
    /\ cancels[ret.args.id] = 2
    /\ remote[1].err # NoErr
    /\ logs = 1

\* C7: Get of a key absent from the store returns no object, found = false
\* and a nil error; Get whose remote call failed returns no object,
\* found = false and a non-nil error.
C7_GetAbsentOrFailed ==
    (ret.op = "Get" /\ Len(remote) = 1) =>
        /\ (remote[1].err = NoErr /\ AbsentInStore(ret.args.key))
             => (ret.object = NilObject /\ ~ret.found /\ ret.err = NoErr)
        /\ remote[1].err # NoErr
             => (ret.object = NilObject /\ ~ret.found /\ ret.err # NoErr)

\* Get of an absent key while another key is stored
C7_Witness ==
    /\ ret.op = "Get"
    /\ ret.args.key = K1
    /\ store["web-0"] = Absent
    /\ store["web-1"] # Absent
    /\ Len(remote) = 1 /\ remote[1].err = NoErr
    /\ ~ret.found /\ ret.err = NoErr

\* C8: when PortForward returns no error the port it returns is the port
\* number of the reply.
C8_PortIsReplyPort ==
    (ret.op = "PortForward" /\ ret.err = NoErr) =>
        ret.Port = remote[1].resp.PortNumber

\* C9: Update of an object that cannot be converted returns the conversion
\* error and sends nothing; otherwise it sends exactly one Update request
\* carrying the document of the whole object and returns the error of that
\* call, and the dashboard stores the object when the call succeeded.
C9_UpdateConvertsBeforeCalling ==
    ret.op = "Update" =>
        IF convertFromObject(ret.args.object).err # NoErr
        THEN /\ ret.err = convertFromObject(ret.args.object).err
             /\ remote = <<>>
        ELSE /\ Len(remote) = 1
             /\ remote[1].rpc = "Update"
             /\ remote[1].req = [Object |-> Json(ret.args.object)]
             /\ ret.err = remote[1].err
             /\ remote[1].err = NoErr
                  => store[ret.args.object.name] = ret.args.object

\* an Update refused by the conversion after one that was stored
C9_Witness ==
    /\ ret.op = "Update"
    /\ ret.args.object.rev < 0
    /\ ret.err # NoErr
    /\ remote = <<>>
    /\ store["web-0"] = Object("web-0", 2)

\* the error of the first step of the last call that failed, if any
StageErr ==
    IF ret.op \in {"List", "Get"} /\ convertFromKey(ret.args.key).err # NoErr
    THEN convertFromKey(ret.args.key).err
    ELSE IF ret.op = "Update" /\ convertFromObject(ret.args.object).err # NoErr
    THEN convertFromObject(ret.args.object).err
    ELSE IF remote # <<>> /\ remote[1].err # NoErr
    THEN remote[1].err
    ELSE IF ret.op = "List" /\ remote # <<>>
    THEN convertToObjects(remote[1].resp.Objects).err
    ELSE IF ret.op = "Get" /\ remote # <<>>
    THEN convertToObject(remote[1].resp.Object).err
    ELSE NoErr

\* C10: List, Get, Update, PortForward and ForceFrontendUpdate send at most
\* one request, of their own kind; when the key conversion, the remote call
\* or the conversion of the reply fails they return that very error and no
\* result, and they return a nil error otherwise.
C10_ErrorsPassThrough ==
    ret.op \in {"List", "Get", "Update", "PortForward", "ForceFrontendUpdate"} =>
        /\ Len(remote) <= 1
        /\ remote # <<>> => remote[1].rpc = ret.op
        /\ ret.err = StageErr
        /\ ret.err # NoErr => NoResult
        /\ (ret.op \in {"List", "Get"} /\ convertFromKey(ret.args.key).err # NoErr)
             => remote = <<>>

\* a List whose reply could not be converted
C10_Witness ==
    /\ ret.op = "List"
    /\ Len(remote) = 1
    /\ remote[1].err = NoErr
    /\ Len(remote[1].resp.Objects) = 2
    /\ ret.err = <<"json: invalid document">>
    /\ ret.list = NilList

----------------------------------------------------------------------------
(* Further properties of the manager's poll loop *)

Polling == pc \in {"waiting", "generated"}

\* C11 as stated: Start returns without waiting for the poll loop to end:
\* while the loop is polling, Start is able to return.
C11_StartIsAsynchronous == Polling => ENABLED StartReturn

\* C11 amended: Start runs the poll loop itself: it cannot return while the
\* loop is polling, it has returned only after poller.Run returned, which
\* takes a cancelled context, and no cycle runs after Start has returned.
C11_StartBlocksUntilLoopEnds ==
    /\ Polling => ~ENABLED StartReturn
    /\ pc = "runReturned" => ctxDone
    /\ pc = "returned" =>
         (ctxDone /\ ~ENABLED CallGenerator /\ ~ENABLED FinishCycle)

\* Start has returned after two cycles
C11_Witness ==
    /\ pc = "returned"
    /\ Len(hist) = 2
    /\ ctxDone

\* C13: a cycle whose generator failed sends nothing and leaves the baseline
\* as it was.
C13_FailedCycleChangesNothing ==
    [][(CycleEnds /\ err # NoErr) => (sink' = sink /\ previous' = previous)]_vars

\* a failed cycle after a sent one, the baseline still that of the sent list
C13_Witness ==
    /\ Len(hist) = 2
    /\ hist[1].pushed
    /\ ~Succeeded(2)
    /\ hist[2].logged
    /\ previous = Marshal(hist[1].out.namespaces)
    /\ Len(sink) = 1

\* C14: the task returned false in every cycle (generator failure, cancelled
\* context, unchanged and changed output), and the loop has ended only on a
\* cancelled context.
C14_TaskReturnsFalse ==
    /\ \A i \in 1..Len(hist) : hist[i].ret = FALSE
    /\ pc \in {"runReturned", "returned"} => ctxDone
    /\ (pc = "waiting" /\ ~ctxDone /\ Len(hist) < MaxCycles) => ENABLED CallGenerator

\* a changed, a failed and a cancelled cycle, and the loop still waiting
C14_Witness ==
    /\ Len(hist) = 3
    /\ hist[1].pushed
    /\ ~Succeeded(2)
    /\ Succeeded(3) /\ hist[3].cancelled
    /\ pc = "waiting"

\* C15: the generator returns an error exactly when the configuration is nil
\* or the namespace client could not be obtained, and a nil list with it;
\* and no cycle whose generator returned an error sent an event.
C15_GeneratorErrors ==
    /\ pc = "generated" =>
         /\ (err # NoErr) <=> (config = "nil" \/ answer.clientErr # NoErr)
         /\ err # NoErr => namespaces = NilSlice
         /\ (config = "cfg" /\ answer.clientErr = NoErr /\ answer.namesErr = NoErr)
              => namespaces = answer.names
    /\ \A i \in 1..Len(hist) : ~Succeeded(i) => ~hist[i].pushed

\* the namespace client could not be obtained, after a sent cycle
C15_Witness ==
    /\ pc = "generated"
    /\ config = "cfg"
    /\ answer.clientErr # NoErr
    /\ err = <<"retrieve namespaces client", "no cluster">>
    /\ Len(sink) = 1

\* C16: a cycle that finds the context cancelled sends nothing and leaves
\* the baseline as it was, whatever the generator returned.
C16_CancelledCycleChangesNothing ==
    [][(CycleEnds /\ ctxDone) => (sink' = sink /\ previous' = previous)]_vars

\* a cancelled cycle whose list differs from the baseline
C16_Witness ==
    /\ Len(hist) = 2
    /\ hist[1].pushed
    /\ Succeeded(2) /\ hist[2].cancelled /\ ~hist[2].pushed
    /\ Marshal(hist[2].out.namespaces) # previous
    /\ Len(sink) = 1

RECURSIVE PushedEvents(_)
\* the events of the first i cycles, from the lists their generators returned
PushedEvents(i) ==
    IF i = 0 THEN <<>>
    ELSE PushedEvents(i - 1)
         \o (IF hist[i].pushed
             THEN <<[Type |-> "namespaces",
                     Data |-> [namespaces |-> hist[i].out.namespaces]]>>
             ELSE <<>>)

\* C17: the baseline is the serialisation of the list of the last event sent
\* (empty before any), the events sent are those of the cycles that sent,
\* each with the list its generator returned, and no two events in a row
\* hold lists with the same serialisation.
C17_BaselineIsLastPushed ==
    /\ previous = LastPushed
    /\ sink = PushedEvents(Len(hist))
    /\ \A i \in 1..(Len(sink) - 1) :
         Marshal(sink[i].Data.namespaces) # Marshal(sink[i + 1].Data.namespaces)

\* three events sent, the first and the third with the same list
C17_Witness ==
    /\ Len(sink) = 3
    /\ sink[1] = sink[3]
    /\ sink[2].Data.namespaces = Slice(<<B, A>>)
    /\ previous = Marshal(Slice(<<A, B>>))

\* C18: the stop channel has room for one value, holds none while the loop
\* runs, and is closed only when Start has returned; the loop has ended only
\* on a cancelled context.
C18_StopChannelUnused ==
    /\ ch.made => (ch.cap = 1 /\ ch.len = 0)
    /\ pc # "new" => ch.made
    /\ ch.closed <=> pc = "returned"
    /\ Polling => ~StopSignalled
    /\ pc \in {"runReturned", "returned"} => (ctxDone /\ ch.len = 0)

\* poller.Run has returned and the channel is still open
C18_Witness ==
    /\ pc = "runReturned"
    /\ ch.made /\ ~ch.closed /\ ch.len = 0
    /\ Len(hist) = 1

----------------------------------------------------------------------------
(* Construction of the client *)

\* C12: NewClient dials only when no option set the connection. With an
\* injected connection it does not dial and every call takes its stub from
\* that connection; without one a failed dial returns no client and the
\* dial error, and a successful dial returns a client with the new
\* connection, which every call then uses.
C12_DialsUnlessInjected ==
    client.called =>
        /\ client.injected =>
             (client.dials = 0 /\ client.made /\ client.conn = "injected"
              /\ client.err = NoErr)
        /\ (~client.injected /\ client.dialErr # NoErr) =>
             (client.dials = 1 /\ ~client.made /\ client.err = client.dialErr
              /\ calls = 0)
        /\ (~client.injected /\ client.dialErr = NoErr) =>
             (client.dials = 1 /\ client.made /\ client.conn = "dialed"
              /\ client.err = NoErr)
        /\ calls > 0 => via = client.conn

\* calls made through an injected connection
C12_Witness ==
    /\ client.injected
    /\ client.dials = 0
    /\ calls = 2
    /\ via = "injected"

----------------------------------------------------------------------------
(* Properties of several poll loops *)

Baseline(l) == baselines[BaselineOf(l)]

LoopCycleEnds(l) == loops[l].pc = "generated" /\ loops'[l].pc # "generated"

\* the serialisation of the list loop l sent last, empty before any
LoopLastSent(l) ==
    IF loops[l].sent = <<>> THEN <<>>
    ELSE Marshal(loops[l].sent[Len(loops[l].sent)].Data.namespaces)

\* a cycle of loop l leaves the baselines of the other loops alone and sends
\* or not by what loop l itself sent last
LoopIsolated(l) ==
    /\ \A k \in Loops \ {l} : Baseline(k)' = Baseline(k) /\ loops'[k] = loops[k]
    /\ (loops[l].err = NoErr /\ ~loops[l].done) =>
         ((loops'[l].sent # loops[l].sent)
            <=> (Marshal(loops[l].namespaces) # LoopLastSent(l)))

\* C19 as stated: a cycle of one loop neither reads nor changes the baseline
\* of another loop, every loop starts from an empty baseline, and every
\* loop sends on its own first successful fetch.
C19_BaselinePrivate ==
    [][\A l \in Loops :
          /\ (loops[l].pc = "new" /\ loops'[l].pc # "new") => Baseline(l)' = <<>>
          /\ LoopCycleEnds(l) =>
               /\ LoopIsolated(l)
               /\ (loops[l].err = NoErr /\ ~loops[l].fetched) =>
                    loops'[l].sent =
                        loops[l].sent \o <<CreateNamespacesEvent(loops[l].namespaces)>>]_vars

\* C19 amended: the same, each loop sending on its own first successful
\* fetch that finds the loop's context not cancelled.
C19_BaselinePrivateUnlessCancelled ==
    [][\A l \in Loops :
          /\ (loops[l].pc = "new" /\ loops'[l].pc # "new") => Baseline(l)' = <<>>
          /\ LoopCycleEnds(l) =>
               /\ LoopIsolated(l)
               /\ (loops[l].err = NoErr /\ ~loops[l].fetched /\ ~loops[l].done) =>
                    loops'[l].sent =
                        loops[l].sent \o <<CreateNamespacesEvent(loops[l].namespaces)>>]_vars

\* both loops fetched the same list first and both sent it
C19_Witness ==
    /\ \A l \in Loops :
         /\ loops[l].cycles = 1
         /\ loops[l].sent = <<CreateNamespacesEvent(Slice(<<A, B>>))>>
         /\ Baseline(l) = Marshal(Slice(<<A, B>>))

====
